---- MODULE Spec2Model ----
(***************************************************************************)
(* A model of the session/connection bridge of src/server.js (the first,   *)
(* "secure" variant, lines 1-603): the session table, the per-session MQTT *)
(* handler, the JSON-RPC dispatcher and the SSE endpoints.                 *)
(*                                                                         *)
(* JavaScript runs every handler to its first real suspension point        *)
(* without interleaving, so each action below is one such run: an HTTP     *)
(* handler up to the point where it waits for the broker library, or one   *)
(* library callback together with the promise continuation it resumes.    *)
(* The mqtt library and the broker are the environment: a client object    *)
(* connects, fails, drops, retries and delivers messages on its own, and   *)
(* emits the events the code has registered listeners for.                 *)
(***************************************************************************)
EXTENDS Integers, Sequences, FiniteSets, TLC

\* ------------------------------------------------------------------ bounds
MaxSessions  == 2     \* stream-opens in a run of PairSpec
SoloSessions == 1     \* stream-opens in a run of Spec
MaxClients   == 2     \* mqtt.connect calls in a run
PairClients  == 1     \* connect calls of one session in a run of PairSpec
MaxOps       == 1     \* publish / end calls waiting for their callback at once
MaxMsgs      == 1     \* inbound broker messages in a run
StreamMsgs   == 3     \* inbound broker messages in a run of StreamSpec

\* ------------------------------------------------------- program constants
DefaultHost == "bemfa.com"
DefaultPort == 9501
ServerError == -32000
NotFoundError == -32601

\* The earlier variant of the server in the same file reads these from the
\* environment at start, or falls back on the values written in the code.
DefaultClientId == "1027eaa277d6457fa609c8286749e828"

DefaultTopic == "MasterLight002"

\* --------------------------------------------------------------- JS values
\* A missing argument and an empty string are both falsy and the code only
\* tests truthiness, so both are "". A real port is a positive number; 0 is a
\* missing one. "#7" stands for a JSON number given where a string is
\* expected: truthy, but without string methods.
NonStrings == {"#7"}

HasSlice(v) == v \notin NonStrings

Truthy(v) == v # ""

NoConfig ==
  [host |-> "", port |-> 0, clientId |-> "", topic |-> "",
   username |-> "", password |-> ""]

\* Argument maps a caller sends to configureBemfa.
ArgsDev1 ==
  [host |-> "", port |-> 0, clientId |-> "dev1", topic |-> "Light001",
   username |-> "", password |-> ""]

ArgsFull ==
  [host |-> "broker.local", port |-> 1883, clientId |-> "dev1",
   topic |-> "Light002", username |-> "user", password |-> "secret"]

ArgsNoClientId == [ArgsDev1 EXCEPT !.clientId = ""]

ArgsNoTopic == [ArgsDev1 EXCEPT !.topic = ""]

ArgsNumericId == [ArgsDev1 EXCEPT !.clientId = "#7"]

\* The argument maps the callers choose from: under Spec they keep to the
\* tool's schema (strings) but may leave fields out, under LooseSpec they may
\* send a number as client id, under PairSpec both send the same map.
ConfigureArgs == {ArgsDev1, ArgsFull, ArgsNoClientId, ArgsNoTopic}

LooseArgs == {ArgsDev1, ArgsNumericId, ArgsNoClientId}

PairArgs == {ArgsDev1}

\* The arguments a caller of the earlier variant sends to connectBemfa: none,
\* or a client id and a topic of its own.
LegacyArgs == {NoConfig, ArgsDev1}

\* The command argument of controlLight ("" is a missing command).
Commands == {"on", "", "constructor"}

PairCommands == {"on"}

\* ------------------------------------------------------------------- state
VARIABLES
  nextSid,    \* number of the next session id uuidv4() hands out
  sessions,   \* keys of SessionManager.sessions
  sess,       \* the session objects (they outlive their table entry in closures)
  sseOpen,    \* whether a session's SSE response is still open
  clients,    \* the mqtt client objects created so far, in creation order
  ops,        \* publish / end calls whose library callback has not run yet
  delivered,  \* inbound broker messages delivered so far
  notes,      \* per stream: the notifications/message events written, in order
  crashed,    \* the process died of an uncaught exception
  configured, \* sessions one of whose configure calls has returned a result
  last        \* what the latest step did

vars ==
  <<nextSid, sessions, sess, sseOpen, clients, ops, delivered, notes, crashed,
    configured, last>>

Sids == 1..MaxSessions

Cids == 1..Len(clients)

\* SessionManager.create: the fields of a new session.
NewSession == [mqttClient |-> 0, connected |-> FALSE, config |-> NoConfig]

NoSend == [client |-> 0, topic |-> "", payload |-> ""]

\* The record of a step that did nothing observable.
Quiet ==
  [op |-> "init", sid |-> 0, rid |-> 0, http |-> "none",
   resp |-> "none", respRid |-> 0, code |-> 0, err |-> "none",
   wrote |-> 0, wroteOpen |-> FALSE, order |-> <<>>,
   opened |-> 0, ended |-> 0, sent |-> NoSend, client |-> 0,
   pre |-> NewSession, preEver |-> FALSE, prePending |-> FALSE,
   preState |-> "none", preConfigured |-> FALSE, arg |-> "",
   args |-> NoConfig, text |-> <<>>]

Init ==
  /\ nextSid = 1
  /\ sessions = {}
  /\ sess = [s \in Sids |-> NewSession]
  /\ sseOpen = [s \in Sids |-> FALSE]
  /\ clients = <<>>
  /\ ops = {}
  /\ delivered = 0
  /\ notes = [s \in Sids |-> <<>>]
  /\ crashed = FALSE
  /\ configured = {}
  /\ last = Quiet

\* ------------------------------------------------------------ mqtt clients
\* mqtt.connect(url, options): a new client object, connecting on its own, with
\* the two once-listeners of MQTTHandler.connect and the promise they settle.
\* `config` is the configuration object the connect call read: the url, the
\* options and the topic to subscribe to all come from it.
NewClient(s, config) ==
  [owner |-> s, config |-> config, state |-> "connecting",
   onConnect |-> TRUE, onError |-> TRUE]

\* A promise bug: the connect call is answered by each of the two listeners.
PromiseResettles(client) == client.onConnect \/ client.onError

\* The promise of the connect call that made client c is settled by whichever
\* once-listener runs first, so it is pending while both are still on.
PromisePending(client) == client.onConnect /\ client.onError

\* The 'message' listener and the subscription are added by the 'connect'
\* listener, which runs once.
OnMessage(client) == ~client.onConnect

SubscribedTopic(client) == IF client.onConnect THEN "" ELSE client.config.topic

\* A connection that has been opened and whose end() has not been requested.
Live(c) == clients[c].state \in {"connecting", "connected", "offline"}

\* client.end(): a client that is already disconnecting stays as it is.
End(cs, c) ==
  IF c = 0 THEN cs
  ELSE [cs EXCEPT ![c].state =
          IF @ \in {"closing", "ended"} THEN @ ELSE "closing"]

\* A connect of session s has succeeded: the 'connect' listener of one of its
\* clients has run (a once-listener, so it is gone afterwards).
EverConnected(s) == \E c \in Cids : clients[c].owner = s /\ ~clients[c].onConnect

\* -------------------------------------------------------------- responses
\* The JSON-RPC ids are the caller's. The caller of the model gives the
\* connect request that creates client c the id c, and every other request the
\* smallest id above MaxClients that no request still waiting for its library
\* callback has, so requests that are outstanding together have different ids.
ConnectRid(c) == c

NextRid ==
  LET used == {op.rid : op \in ops} IN
  CHOOSE i \in (MaxClients + 1)..(MaxClients + MaxOps + 1) :
    i \notin used /\ \A j \in (MaxClients + 1)..(i - 1) : j \in used

\* MQTTHandler.sendMessageEvent on the session's sseRes, as ResponseHandler
\* sendResult / sendError call it: one "message" event with the request's id.
Respond(l, s, rid, kind, code, err) ==
  [l EXCEPT !.resp = kind, !.respRid = rid, !.code = code, !.err = err,
            !.wrote = s, !.wroteOpen = sseOpen[s],
            !.order = Append(@, "event")]

\* An acknowledgement bug: res.json is called after handleRequest was awaited,
\* so the step that accepts the request has not acknowledged it.
AcceptedLate(name, s, arg) ==
  [Quiet EXCEPT !.op = name, !.sid = s, !.rid = NextRid,
                !.pre = sess[s], !.preEver = EverConnected(s),
                !.preConfigured = s \in configured, !.arg = arg]

\* What every accepted POST /mqttx/message starts from: the {ack:true} reply,
\* sent by res.json before handleRequest is called. `order` lists what the
\* step sends, in the order of the calls.
Accepted(name, s, arg) ==
  [Quiet EXCEPT !.op = name, !.sid = s, !.rid = NextRid, !.http = "ack",
                !.order = <<"ack">>,
                !.pre = sess[s], !.preEver = EverConnected(s),
                !.preConfigured = s \in configured, !.arg = arg]

\* A lookup bug: every id that was ever handed out is found.
LookupIssued(sid) == sid \in 1..(nextSid - 1)

\* POST /mqttx/message: the session lookup that lets a request through.
Lookup(sid) == sid \in sessions

CanPost(s) == ~crashed /\ Lookup(s)

\* ------------------------------------------------------------ the streams
\* An id bug: the generator hands out the id it handed out last.
Uuidv4Repeats == IF nextSid > 1 THEN nextSid - 1 ELSE nextSid

\* uuidv4(): an id that has not been handed out before (ids are numbered in
\* the order they are made).
Uuidv4 == nextSid

\* GET /mqttx/sse: a new session and its stream.
Open ==
  /\ ~crashed
  /\ sessions' = sessions \cup {Uuidv4}
  /\ sess' = [sess EXCEPT ![Uuidv4] = NewSession]
  /\ sseOpen' = [sseOpen EXCEPT ![Uuidv4] = TRUE]
  /\ nextSid' = nextSid + 1
  /\ last' = [Quiet EXCEPT !.op = "open", !.sid = Uuidv4,
                           !.wrote = Uuidv4, !.wroteOpen = TRUE]
  /\ UNCHANGED <<clients, ops, delivered, notes, crashed, configured>>

\* A removal bug: the session object of an id is looked at whether or not the
\* table still holds the id.
RemoveEndsStale(sid) == IF sid \in Sids THEN sess[sid].mqttClient ELSE 0

\* SessionManager.remove: the client whose end() it requests (0: none).
RemoveEnds(sid) == IF sid \in sessions THEN sess[sid].mqttClient ELSE 0

\* A removal bug: the entry is not deleted.
RemoveTableKeep(sid) == sessions

\* SessionManager.remove: the table afterwards.
RemoveTable(sid) == sessions \ {sid}

\* req.on("close"): the stream of session s closes.
CloseStream(s) ==
  /\ ~crashed
  /\ s < nextSid
  /\ sseOpen[s]
  /\ sseOpen' = [sseOpen EXCEPT ![s] = FALSE]
  /\ clients' = End(clients, RemoveEnds(s))
  /\ sessions' = RemoveTable(s)
  /\ last' = [Quiet EXCEPT !.op = "close", !.sid = s, !.pre = sess[s],
                           !.preEver = EverConnected(s),
                           !.ended = RemoveEnds(s)]
  /\ UNCHANGED <<nextSid, sess, ops, delivered, notes, crashed, configured>>

\* The heartbeat timer of stream s fires: one heartbeat event is written to
\* the stream. The interval is set when the stream opens and cleared by the
\* stream's close handler, so it fires exactly while the stream is open.
Heartbeat(s) ==
  /\ ~crashed
  /\ s < nextSid
  /\ sseOpen[s]
  /\ last' = [Quiet EXCEPT !.op = "heartbeat", !.sid = s, !.wrote = s,
                           !.wroteOpen = sseOpen[s]]
  /\ UNCHANGED <<nextSid, sessions, sess, sseOpen, clients, ops, delivered,
                 notes, crashed, configured>>

\* SessionManager.remove called for an id the table does not hold: an id that
\* was removed before, or one that was never created (0, or one not yet
\* handed out). The server itself calls remove once per stream; this is the
\* function applied a further time.
RemoveAbsent(sid) ==
  /\ ~crashed
  /\ sid \notin sessions
  /\ clients' = End(clients, RemoveEnds(sid))
  /\ sessions' = RemoveTable(sid)
  /\ last' = [Quiet EXCEPT !.op = "remove", !.sid = sid,
                           !.ended = RemoveEnds(sid)]
  /\ UNCHANGED <<nextSid, sess, sseOpen, ops, delivered, notes, crashed,
                 configured>>

\* POST /mqttx/message without a session id (0) or with one the table does
\* not hold: 400 or 404, and nothing else.
PostRejected(sid) ==
  /\ ~crashed
  /\ ~(sid # 0 /\ Lookup(sid))
  /\ last' = [Quiet EXCEPT !.op = "post", !.sid = sid, !.rid = NextRid,
                           !.http = IF sid = 0 THEN "400" ELSE "404"]
  /\ UNCHANGED <<nextSid, sessions, sess, sseOpen, clients, ops,
                 delivered, notes, crashed, configured>>

\* handleRequest: initialize and tools/list answer with a static document.
PostStatic(s, method) ==
  /\ CanPost(s)
  /\ last' = Respond(Accepted(method, s, ""), s, NextRid, "result", 0, "none")
  /\ UNCHANGED <<nextSid, sessions, sess, sseOpen, clients, ops, delivered,
                 notes, crashed, configured>>

\* handleRequest: an unknown method, or tools/call with an unknown tool name.
PostUnknown(s, what) ==
  /\ CanPost(s)
  /\ last' = Respond(Accepted(what, s, ""), s, NextRid, "error", NotFoundError,
                     IF what = "unknown-method" THEN "MethodNotFound"
                                                ELSE "ToolNotFound")
  /\ UNCHANGED <<nextSid, sessions, sess, sseOpen, clients, ops, delivered,
                 notes, crashed, configured>>

\* ------------------------------------------------------------ MQTTHandler
\* A validation bug: only the client id is required.
MissingClientId(args) == {f \in {"clientId"} : ~Truthy(args[f])}

\* MQTTHandler.configure: the required fields that are missing.
Missing(args) == {f \in {"clientId", "topic"} : ~Truthy(args[f])}

\* MQTTHandler.configure: the Configuration it stores.
StoredConfig(args) ==
  [host |-> IF Truthy(args.host) THEN args.host ELSE DefaultHost,
   port |-> IF args.port # 0 THEN args.port ELSE DefaultPort,
   clientId |-> args.clientId,
   topic |-> args.topic,
   username |-> args.username,
   password |-> args.password]

\* A configure bug: the session is set up afresh around the new Configuration.
ConfigureResets(session, args) == [NewSession EXCEPT !.config = StoredConfig(args)]

\* MQTTHandler.configure: the session afterwards. session.config is assigned
\* a new object; the object a connect call read earlier is not touched.
Reconfigured(session, args) == [session EXCEPT !.config = StoredConfig(args)]

\* tools/call configureBemfa. The configuration is stored before the log line
\* is built; building it calls args.clientId.slice, which throws for a client
\* id that is no string, and the dispatcher turns that into an error response.
PostConfigure(s, args) ==
  /\ CanPost(s)
  /\ LET l == [Accepted("configure", s, args.clientId) EXCEPT !.args = args] IN
     IF Missing(args) # {}
     THEN /\ last' = Respond(l, s, l.rid, "error", ServerError, "ValidationError")
          /\ UNCHANGED <<sess, configured>>
     ELSE /\ sess' = [sess EXCEPT ![s] = Reconfigured(@, args)]
          /\ IF HasSlice(args.clientId)
             THEN /\ last' = Respond(l, s, l.rid, "result", 0, "none")
                  /\ configured' = configured \cup {s}
             ELSE /\ last' = Respond(l, s, l.rid, "error", ServerError, "TypeError")
                  /\ UNCHANGED configured
  /\ UNCHANGED <<nextSid, sessions, sseOpen, clients, ops, delivered, notes,
                 crashed>>

\* The characters of the strings callers put into a Configuration (TLA+
\* strings cannot be taken apart, so texts are sequences of characters).
Chars(v) ==
  CASE
       v = "dev1" -> <<"d", "e", "v", "1">>
    [] v = "bemfa.com" -> <<"b", "e", "m", "f", "a", ".", "c", "o", "m">>
    [] v = "broker.local" -> <<"b", "r", "o", "k", "e", "r", ".", "l", "o", "c", "a", "l">>
    [] v = "Light001" -> <<"L", "i", "g", "h", "t", "0", "0", "1">>
    [] v = "Light002" -> <<"L", "i", "g", "h", "t", "0", "0", "2">>
    [] v = "user" -> <<"u", "s", "e", "r">>
    [] v = "secret" -> <<"s", "e", "c", "r", "e", "t">>
    [] OTHER -> <<>>

\* The decimal digits of a port number.
PortChars(n) ==
  CASE n = 9501 -> <<"9", "5", "0", "1">>
    [] n = 1883 -> <<"1", "8", "8", "3">>
    [] OTHER -> <<>>

\* String.prototype.slice(-n): the last n characters, or all of them when
\* there are no more than n.
SliceLast(chars, n) ==
  IF Len(chars) <= n THEN chars ELSE SubSeq(chars, Len(chars) - n + 1, Len(chars))

\* MQTTHandler.getConfig: safeConfig.clientId.
SafeClientId(clientId) == <<"*", "*", "*">> \o SliceLast(Chars(clientId), 4)

\* MQTTHandler.getConfig: safeConfig.password.
SafePassword(password) ==
  IF Truthy(password) THEN <<"*", "*", "*">> ELSE <<"(unset)">>

\* MQTTHandler.getConfig: the text of the result for a stored Configuration.
\* Each label of the template, and the template's word for a value that is not
\* set, is one element, written here in ASCII.
GetConfigText(config) ==
  <<"config: server: ">> \o Chars(config.host) \o <<":">> \o PortChars(config.port)
    \o <<" topic: ">> \o Chars(config.topic)
    \o <<" clientId: ">> \o SafeClientId(config.clientId)
    \o <<" username: ">>
    \o (IF Truthy(config.username) THEN Chars(config.username)
                                   ELSE <<"(unset)">>)
    \o <<" password: ">> \o SafePassword(config.password)

\* tools/call getConfig: a text either way; masking the client id calls slice.
PostGetConfig(s) ==
  /\ CanPost(s)
  /\ LET l == Accepted("getConfig", s, "") IN
     last' = IF sess[s].config = NoConfig
             THEN Respond([l EXCEPT !.text = <<"not configured">>],
                          s, l.rid, "result", 0, "none")
             ELSE IF HasSlice(sess[s].config.clientId)
             THEN Respond([l EXCEPT !.text = GetConfigText(sess[s].config)],
                          s, l.rid, "result", 0, "none")
             ELSE Respond(l, s, l.rid, "error", ServerError, "TypeError")
  /\ UNCHANGED <<nextSid, sessions, sess, sseOpen, clients, ops, delivered,
                 notes, crashed, configured>>

\* MQTTHandler.connect: the session has a Configuration.
Configured(session) == session.config # NoConfig

\* MQTTHandler.connect: the earlier client it ends before opening a new one
\* (0: none). Only the handle the session holds is looked at.
ConnectEnds(session) == session.mqttClient

\* A connect bug: the handle and the flag are set as soon as the client object
\* exists, before the broker has acknowledged anything.
ConnectingEager(session, c) ==
  [session EXCEPT !.mqttClient = c, !.connected = TRUE]

\* MQTTHandler.connect: the session's fields when the call has made client c and
\* waits for its events. Nothing is stored before the 'connect' event.
Connecting(session, c) == session

\* tools/call connectBemfa, up to the point where it waits for the client's
\* 'connect' or 'error' event.
PostConnect(s) ==
  /\ CanPost(s)
  /\ LET l == Accepted("connect", s, "") IN
     IF ~Configured(sess[s])
     THEN /\ last' = Respond(l, s, l.rid, "error", ServerError, "NotConfigured")
          /\ UNCHANGED <<clients, sess>>
     ELSE /\ clients' = Append(End(clients, ConnectEnds(sess[s])),
                               NewClient(s, sess[s].config))
          /\ sess' = [sess EXCEPT ![s] = Connecting(@, Len(clients) + 1)]
          /\ last' = [l EXCEPT !.rid = ConnectRid(Len(clients) + 1),
                               !.ended = ConnectEnds(sess[s]),
                               !.opened = Len(clients) + 1]
  /\ UNCHANGED <<nextSid, sessions, sseOpen, ops, delivered, notes, crashed,
                 configured>>

\* MQTTHandler.controlLight / disconnect: the session counts as connected.
HasConnection(session) == session.connected /\ session.mqttClient # 0

\* The commandMap object literal's own keys.
CommandMapKeys == {"on", "off", "toggle", "status"}

\* What every object literal inherits from Object.prototype.
ObjectPrototypeKeys ==
  {"constructor", "toString", "toLocaleString", "valueOf", "hasOwnProperty",
   "isPrototypeOf", "propertyIsEnumerable", "__proto__"}

\* commandMap[command]: the mapped string, an inherited member of
\* Object.prototype (a function or object, truthy), or undefined ("").
CommandMapGet(command) ==
  IF command \in CommandMapKeys THEN command
  ELSE IF command \in ObjectPrototypeKeys THEN "<inherited>"
  ELSE ""

\* MQTTHandler.controlLight: the topic it publishes on.
PublishTopic(session) == session.config.topic

\* tools/call controlLight, up to the publish callback. A client that is
\* already disconnecting calls back with an error at once and sends nothing.
PostControlLight(s, command) ==
  /\ CanPost(s)
  /\ LET l == Accepted("publish", s, command)
         c == sess[s].mqttClient
     IN
     IF ~HasConnection(sess[s])
     THEN /\ last' = Respond(l, s, l.rid, "error", ServerError, "NotConnected")
          /\ UNCHANGED ops
     ELSE IF ~Configured(sess[s])
     THEN /\ last' = Respond(l, s, l.rid, "error", ServerError, "ConfigLost")
          /\ UNCHANGED ops
     ELSE IF ~Truthy(CommandMapGet(command))
     THEN /\ last' = Respond(l, s, l.rid, "error", ServerError, "UnsupportedCommand")
          /\ UNCHANGED ops
     ELSE IF ~Live(c)
     THEN /\ last' = Respond(l, s, l.rid, "error", ServerError, "PublishError")
          /\ UNCHANGED ops
     ELSE /\ ops' = ops \cup {[kind |-> "publish", sid |-> s, rid |-> l.rid,
                               client |-> c]}
          /\ last' = [l EXCEPT !.sent = [client |-> c,
                                         topic |-> PublishTopic(sess[s]),
                                         payload |-> CommandMapGet(command)]]
  /\ UNCHANGED <<nextSid, sessions, sess, sseOpen, clients, delivered, notes,
                 crashed, configured>>

\* A disconnect bug: the Configuration is cleared with the handle and the flag.
DisconnectedCleared(session) == NewSession

\* A disconnect bug: the end callback resets the flag and keeps the handle.
DisconnectedFlagOnly(session) == [session EXCEPT !.connected = FALSE]

\* The end callback of MQTTHandler.disconnect: the session's fields afterwards.
Disconnected(session) == [session EXCEPT !.connected = FALSE, !.mqttClient = 0]

\* tools/call disconnectBemfa, up to the end callback. A client that is
\* already disconnecting calls back at once.
PostDisconnect(s) ==
  /\ CanPost(s)
  /\ LET l == Accepted("disconnect", s, "")
         c == sess[s].mqttClient
     IN
     IF ~HasConnection(sess[s])
     THEN /\ last' = Respond(l, s, l.rid, "error", ServerError, "NotConnected")
          /\ UNCHANGED <<sess, clients, ops>>
     ELSE IF ~Live(c)
     THEN /\ sess' = [sess EXCEPT ![s] = Disconnected(@)]
          /\ last' = Respond([l EXCEPT !.ended = c], s, l.rid, "result", 0, "none")
          /\ UNCHANGED <<clients, ops>>
     ELSE /\ clients' = End(clients, c)
          /\ ops' = ops \cup {[kind |-> "end", sid |-> s, rid |-> l.rid,
                               client |-> c]}
          /\ last' = [l EXCEPT !.ended = c]
          /\ UNCHANGED sess
  /\ UNCHANGED <<nextSid, sessions, sseOpen, delivered, notes, crashed, configured>>

\* ------------------------------------------------- broker and library events
\* An event step starts from this record.
Event(name, c) ==
  [Quiet EXCEPT !.op = name, !.client = c, !.sid = clients[c].owner,
                !.rid = ConnectRid(c), !.pre = sess[clients[c].owner],
                !.preEver = EverConnected(clients[c].owner),
                !.prePending = PromisePending(clients[c]),
                !.preState = clients[c].state]

\* The 'connect' listener of MQTTHandler.connect: the session's fields afterwards.
Connected(session, c) == [session EXCEPT !.mqttClient = c, !.connected = TRUE]

\* The client object after its 'connect' once-listener ran (SubscribedTopic
\* and OnMessage read the subscription and the 'message' listener off it).
Subscribed(client) == [client EXCEPT !.onConnect = FALSE]

\* The broker acknowledges client c's connection (the first time, or after a
\* retry). The once-listener, if still there, runs and resolves the connect
\* call; handleRequest then writes the result to the session's stream.
BrokerConnack(c) ==
  /\ ~crashed
  /\ clients[c].state = "connecting"
  /\ LET cl == [clients[c] EXCEPT !.state = "connected"]
         s == cl.owner
     IN
     IF cl.onConnect
     THEN /\ clients' = [clients EXCEPT ![c] = Subscribed(cl)]
          /\ sess' = [sess EXCEPT ![s] = Connected(@, c)]
          /\ last' = IF PromisePending(cl)
                     THEN Respond(Event("connack", c), s, ConnectRid(c),
                                  "result", 0, "none")
                     ELSE Event("connack", c)
     ELSE /\ clients' = [clients EXCEPT ![c] = cl]
          /\ last' = Event("connack", c)
          /\ UNCHANGED sess
  /\ UNCHANGED <<nextSid, sessions, sseOpen, ops, delivered, notes,
                 crashed, configured>>

\* The client object after its 'error' listener ran.
Errored(client) == [client EXCEPT !.onError = FALSE]

\* The 'error' listener of MQTTHandler.connect: the session's fields afterwards.
AfterError(session) == session

\* Client c emits 'error' (connection refused or reset) and goes offline to
\* retry. The once-listener, if still there, rejects the connect call, and
\* handleRequest writes the error; an 'error' nobody listens to is thrown by
\* the emitter and ends the process.
BrokerError(c) ==
  /\ ~crashed
  /\ clients[c].state \in {"connecting", "connected"}
  /\ LET cl == [clients[c] EXCEPT !.state = "offline"]
         s == cl.owner
     IN
     IF cl.onError
     THEN /\ clients' = [clients EXCEPT ![c] = Errored(cl)]
          /\ sess' = [sess EXCEPT ![s] = AfterError(@)]
          /\ last' = IF PromisePending(cl)
                     THEN Respond(Event("error", c), s, ConnectRid(c), "error",
                                  ServerError, "ConnectionError")
                     ELSE Event("error", c)
          /\ UNCHANGED crashed
     ELSE /\ crashed' = TRUE
          /\ last' = Event("uncaught", c)
          /\ UNCHANGED <<clients, sess>>
  /\ UNCHANGED <<nextSid, sessions, sseOpen, ops, delivered, notes, configured>>

\* The 'close' / 'offline' events, which the code does not listen to: what
\* becomes of the session when its connection drops.
AfterClose(session) == session

\* Client c's connection drops or times out without an 'error' event.
BrokerClose(c) ==
  /\ ~crashed
  /\ clients[c].state \in {"connecting", "connected"}
  /\ clients' = [clients EXCEPT ![c].state = "offline"]
  /\ sess' = [sess EXCEPT ![clients[c].owner] = AfterClose(@)]
  /\ last' = Event("drop", c)
  /\ UNCHANGED <<nextSid, sessions, sseOpen, ops, delivered, notes,
                 crashed, configured>>

\* The library's reconnect timer: client c tries again.
Reconnect(c) ==
  /\ ~crashed
  /\ clients[c].state = "offline"
  /\ clients' = [clients EXCEPT ![c].state = "connecting"]
  /\ last' = Event("retry", c)
  /\ UNCHANGED <<nextSid, sessions, sess, sseOpen, ops, delivered,
                 notes, crashed, configured>>

\* A routing bug: the notification goes to the first session of the table
\* that is configured for the client's topic.
MessageTargetByTopic(c) ==
  LET same == {s \in sessions : sess[s].config.topic = clients[c].config.topic} IN
  IF same = {} THEN clients[c].owner
  ELSE CHOOSE s \in same : \A r \in same : s <= r

\* A forwarding bug: only the latest notification is kept for the stream.
SendMessageEventLatest(events, note) == <<note>>

\* MQTTHandler.sendMessageEvent: the notification is written to the stream at
\* once, behind everything written before.
SendMessageEvent(events, note) == Append(events, note)

\* The 'message' listener: the stream it writes the notification to, which is
\* the sseRes of the session object the connect call was given.
MessageTarget(c) == clients[c].owner

\* The broker delivers a message on client c's subscribed topic.
BrokerMessage(c) ==
  /\ ~crashed
  /\ clients[c].state = "connected"
  /\ SubscribedTopic(clients[c]) # ""
  /\ delivered' = delivered + 1
  /\ IF OnMessage(clients[c])
     THEN /\ notes' = [notes EXCEPT ![MessageTarget(c)] =
                         SendMessageEvent(@, [client |-> c, n |-> delivered + 1])]
          /\ last' = [Event("message", c) EXCEPT
                        !.wrote = MessageTarget(c),
                        !.wroteOpen = sseOpen[MessageTarget(c)]]
     ELSE /\ last' = Event("message", c)
          /\ UNCHANGED notes
  /\ UNCHANGED <<nextSid, sessions, sess, sseOpen, clients, ops,
                 crashed, configured>>

\* The callback of client.publish: the broker link took the message, or failed.
PublishCallback(op, ok) ==
  /\ ~crashed
  /\ op \in ops
  /\ op.kind = "publish"
  /\ \/ clients[op.client].state = "connected"
     \/ clients[op.client].state \in {"closing", "ended"} /\ ~ok
  /\ ops' = ops \ {op}
  /\ last' = IF ok
             THEN Respond(Event("published", op.client), op.sid, op.rid,
                          "result", 0, "none")
             ELSE Respond(Event("published", op.client), op.sid, op.rid,
                          "error", ServerError, "PublishError")
  /\ UNCHANGED <<nextSid, sessions, sess, sseOpen, clients, delivered,
                 notes, crashed, configured>>

\* Client c, asked to end, has closed. If MQTTHandler.disconnect asked, its
\* callback runs: the session's fields are reset and the result is written.
EndDone(c) ==
  /\ ~crashed
  /\ clients[c].state = "closing"
  /\ clients' = [clients EXCEPT ![c].state = "ended"]
  /\ LET waiting == {op \in ops : op.kind = "end" /\ op.client = c} IN
     IF waiting = {}
     THEN /\ last' = Event("ended", c)
          /\ UNCHANGED <<sess, ops>>
     ELSE LET op == CHOOSE o \in waiting : TRUE IN
          /\ ops' = ops \ {op}
          /\ sess' = [sess EXCEPT ![op.sid] = Disconnected(@)]
          /\ last' = Respond(Event("ended", c), op.sid, op.rid, "result", 0, "none")
  /\ UNCHANGED <<nextSid, sessions, sseOpen, delivered, notes, crashed, configured>>

\* ------------------------------------------------------------ specification
\* The bounds of a run: a step that would open one more stream or client,
\* leave one more call waiting or deliver one more message is not taken.
Bounded(s) ==
  HasConnection(sess[s]) /\ Live(sess[s].mqttClient) => Cardinality(ops) < MaxOps

\* One step of the server or of its environment, for callers that open up to
\* maxSessions streams, call connect up to maxEach times on each, and choose
\* their arguments from args and commands, while the broker delivers up to
\* maxMsgs messages.
Steps(maxSessions, maxEach, maxMsgs, args, commands) ==
  \/ nextSid <= maxSessions /\ Open
  \/ \E s \in Sids : CloseStream(s)
  \/ \E sid \in 0..maxSessions : PostRejected(sid)
  \/ \E s \in Sids, m \in {"initialize", "tools/list"} : PostStatic(s, m)
  \/ \E s \in Sids, w \in {"unknown-method", "unknown-tool"} : PostUnknown(s, w)
  \/ \E s \in Sids, a \in args : PostConfigure(s, a)
  \/ \E s \in Sids : PostGetConfig(s)
  \/ \E s \in Sids :
       /\ Configured(sess[s]) =>
            /\ Len(clients) < MaxClients
            /\ Cardinality({c \in Cids : clients[c].owner = s}) < maxEach
       /\ PostConnect(s)
  \/ \E s \in Sids, k \in commands : Bounded(s) /\ PostControlLight(s, k)
  \/ \E s \in Sids : Bounded(s) /\ PostDisconnect(s)
  \/ \E c \in Cids : BrokerConnack(c)
  \/ \E c \in Cids : BrokerError(c)
  \/ \E c \in Cids : BrokerClose(c)
  \/ \E c \in Cids : Reconnect(c)
  \/ \E c \in Cids : delivered < maxMsgs /\ BrokerMessage(c)
  \/ \E op \in ops, ok \in BOOLEAN : PublishCallback(op, ok)
  \/ \E c \in Cids : EndDone(c)

\* ------------------------------------------------------ the earlier variant
\* The second half of server.js is an earlier variant of the same server. It
\* has no configureBemfa and no getConfig: connectBemfa takes the connection
\* parameters as arguments and fills in what is missing from the process's
\* own config object. Its session objects hold no Configuration; they hold
\* currentTopic, which the 'connect' listener sets together with mqttClient,
\* so wherever it is read it is the topic of the client the handle points to.
LegacyConfig(args) ==
  [host |-> IF Truthy(args.host) THEN args.host ELSE DefaultHost,
   port |-> IF args.port # 0 THEN args.port ELSE DefaultPort,
   clientId |-> IF Truthy(args.clientId) THEN args.clientId ELSE DefaultClientId,
   topic |-> IF Truthy(args.topic) THEN args.topic ELSE DefaultTopic,
   username |-> "",
   password |-> ""]

\* tools/call connectBemfa of the earlier variant, up to the point where it
\* waits for the client's 'connect' or 'error' event.
LegacyPostConnect(s, args) ==
  /\ CanPost(s)
  /\ LET l == [Accepted("connect", s, args.clientId) EXCEPT !.args = args] IN
     /\ clients' = Append(End(clients, ConnectEnds(sess[s])),
                          NewClient(s, LegacyConfig(args)))
     /\ last' = [l EXCEPT !.rid = ConnectRid(Len(clients) + 1),
                          !.ended = ConnectEnds(sess[s]),
                          !.opened = Len(clients) + 1]
  /\ UNCHANGED <<nextSid, sessions, sess, sseOpen, ops, delivered, notes,
                 crashed, configured>>

\* controlLight of the earlier variant: session.currentTopic || defaultTopic.
LegacyPublishTopic(session) ==
  LET currentTopic == clients[session.mqttClient].config.topic IN
  IF Truthy(currentTopic) THEN currentTopic ELSE DefaultTopic

\* tools/call controlLight of the earlier variant, up to the publish callback.
LegacyPostControlLight(s, command) ==
  /\ CanPost(s)
  /\ LET l == Accepted("publish", s, command)
         c == sess[s].mqttClient
     IN
     IF ~HasConnection(sess[s])
     THEN /\ last' = Respond(l, s, l.rid, "error", ServerError, "NotConnected")
          /\ UNCHANGED ops
     ELSE IF ~Truthy(CommandMapGet(command))
     THEN /\ last' = Respond(l, s, l.rid, "error", ServerError, "UnsupportedCommand")
          /\ UNCHANGED ops
     ELSE IF ~Live(c)
     THEN /\ last' = Respond(l, s, l.rid, "error", ServerError, "PublishError")
          /\ UNCHANGED ops
     ELSE /\ ops' = ops \cup {[kind |-> "publish", sid |-> s, rid |-> l.rid,
                               client |-> c]}
          /\ last' = [l EXCEPT !.sent = [client |-> c,
                                         topic |-> LegacyPublishTopic(sess[s]),
                                         payload |-> CommandMapGet(command)]]
  /\ UNCHANGED <<nextSid, sessions, sess, sseOpen, clients, delivered, notes,
                 crashed, configured>>

\* One step of the earlier variant or of its environment. Its stream-open,
\* close, submission endpoint, disconnect and client listeners are those of
\* the present variant, line for line.
LegacySteps(args, commands) ==
  \/ nextSid <= SoloSessions /\ Open
  \/ \E s \in Sids : CloseStream(s)
  \/ \E sid \in 0..SoloSessions : PostRejected(sid)
  \/ \E s \in Sids, m \in {"initialize", "tools/list"} : PostStatic(s, m)
  \/ \E s \in Sids, w \in {"unknown-method", "unknown-tool"} : PostUnknown(s, w)
  \/ \E s \in Sids, a \in args :
       Len(clients) < MaxClients /\ LegacyPostConnect(s, a)
  \/ \E s \in Sids, k \in commands : Bounded(s) /\ LegacyPostControlLight(s, k)
  \/ \E s \in Sids : Bounded(s) /\ PostDisconnect(s)
  \/ \E c \in Cids : BrokerConnack(c)
  \/ \E c \in Cids : BrokerError(c)
  \/ \E c \in Cids : BrokerClose(c)
  \/ \E c \in Cids : Reconnect(c)
  \/ \E c \in Cids : delivered < MaxMsgs /\ BrokerMessage(c)
  \/ \E op \in ops, ok \in BOOLEAN : PublishCallback(op, ok)
  \/ \E c \in Cids : EndDone(c)

LegacyNext == LegacySteps(LegacyArgs, PairCommands)

LegacySpec == Init /\ [][LegacyNext]_vars

\* One caller, with every kind of argument.
Next == Steps(SoloSessions, MaxClients, MaxMsgs, ConfigureArgs, Commands)

Spec == Init /\ [][Next]_vars

\* One caller who does not keep to the schema of configureBemfa.
LooseNext == Steps(SoloSessions, MaxClients, MaxMsgs, LooseArgs, Commands)

LooseSpec == Init /\ [][LooseNext]_vars

\* Two callers who configure the same client id and topic and connect once.
PairNext == Steps(MaxSessions, PairClients, MaxMsgs, PairArgs, PairCommands)

PairSpec == Init /\ [][PairNext]_vars

\* Two callers, and SessionManager.remove applied to ids the table does not
\* hold.
RemoveNext ==
  \/ Steps(MaxSessions, PairClients, MaxMsgs, PairArgs, PairCommands)
  \/ \E sid \in 0..MaxSessions : RemoveAbsent(sid)

RemoveSpec == Init /\ [][RemoveNext]_vars

\* One caller, with the heartbeat timer of the stream.
TimerNext ==
  \/ Steps(SoloSessions, MaxClients, MaxMsgs, PairArgs, PairCommands)
  \/ \E s \in Sids : Heartbeat(s)

TimerSpec == Init /\ [][TimerNext]_vars

\* One caller whose connections receive several messages.
StreamNext ==
  Steps(SoloSessions, MaxClients, StreamMsgs, PairArgs, PairCommands)

StreamSpec == Init /\ [][StreamNext]_vars

\* One caller, under the progress the event loop, the library and the network
\* give: a callback the library owes is called, the reconnect timer fires, and
\* a connection attempt or an open link does not stay as it is for ever (it is
\* acknowledged, refused, or drops). Nothing makes the broker acknowledge.
FairNext == Steps(SoloSessions, MaxClients, MaxMsgs, PairArgs, PairCommands)

OpRecords ==
  [kind : {"publish", "end"}, sid : Sids,
   rid : (MaxClients + 1)..(MaxClients + MaxOps + 1), client : 1..MaxClients]

Fairness ==
  /\ \A c \in 1..MaxClients :
       /\ WF_vars(c \in Cids /\ EndDone(c))
       /\ WF_vars(c \in Cids /\ Reconnect(c))
       /\ WF_vars(c \in Cids /\ clients[c].state = "connecting" /\
                  (BrokerConnack(c) \/ BrokerError(c) \/ BrokerClose(c)))
  /\ \A op \in OpRecords :
       WF_vars(\E ok \in BOOLEAN : PublishCallback(op, ok))

FairSpec == Init /\ [][FairNext]_vars /\ Fairness

\* ------------------------------------------------------------------ claims
\* A session whose stream has closed, which removes it.
Removed(s) == s < nextSid /\ ~sseOpen[s]

\* The clients a connect call of session s has opened.
ClientsOf(s) == {c \in Cids : clients[c].owner = s}

\* C1: an inbound broker message delivered to a connection that session S1
\* opened is written to S1's stream and to no other, in every interleaving of
\* the two callers' operations, also when both sessions are configured with the
\* same client id and topic.
C1_NotificationsStayInSession ==
  /\ \A s \in Sids : \A i \in 1..Len(notes[s]) :
       clients[notes[s][i].client].owner = s
  /\ (last.op = "message" /\ last.wrote # 0) =>
       last.wrote = clients[last.client].owner

\* C1's case: two sessions with the same configuration both hold a connected
\* client, and a message has just been forwarded.
C1_Witness ==
  /\ last.op = "message"
  /\ last.wrote # 0
  /\ \E c1, c2 \in Cids :
       /\ clients[c1].owner # clients[c2].owner
       /\ clients[c1].config = clients[c2].config
       /\ clients[c1].state = "connected" /\ OnMessage(clients[c1])
       /\ clients[c2].state = "connected" /\ OnMessage(clients[c2])

\* C2: every session has at most one live broker connection (connecting,
\* connected or retrying, its end not requested) in every reachable state.
C2_OneLiveConnection ==
  \A s \in Sids : Cardinality({c \in ClientsOf(s) : Live(c)}) <= 1

\* C3: when the connect of a session that was removed while the connect was in
\* flight settles, the connection it opened is not live and the session is not
\* flagged connected.
C3_RemovalSafeDuringConnect ==
  (last.op \in {"connack", "error"} /\ last.prePending /\ Removed(last.sid)) =>
    /\ ~Live(last.client)
    /\ ~sess[last.sid].connected

\* C4: closing the stream of a session that is Connected requests the end of
\* the connection the session holds and deletes the table entry; from then on
\* the id is not found, and a request with it is answered 404 and nothing else.
C4_ClosedSessionIsGone ==
  /\ \A s \in Sids : Removed(s) => ~Lookup(s)
  /\ (last.op = "close" /\ HasConnection(last.pre)) =>
       /\ last.ended = last.pre.mqttClient
       /\ clients[last.ended].state \in {"closing", "ended"}
  /\ (last.http # "none" /\ last.sid \in Sids /\ Removed(last.sid)) =>
       /\ last.http = "404"
       /\ last.resp = "none"

\* C4's case: a request arrives for a session that was closed while Connected,
\* whose connection has been told to end.
C4_Witness ==
  /\ last.op = "post"
  /\ last.http = "404"
  /\ last.sid \in Sids
  /\ Removed(last.sid)
  /\ HasConnection(sess[last.sid])
  /\ clients[sess[last.sid].mqttClient].state \in {"closing", "ended"}

\* C5: connect on a session none of whose configure calls has succeeded fails
\* with NotConfigured, opens no client and leaves handle and flag as they were.
C5_ConnectNeedsConfigure ==
  (last.op = "connect" /\ ~last.preConfigured) =>
    /\ last.resp = "error"
    /\ last.err = "NotConfigured"
    /\ last.opened = 0
    /\ last.ended = 0
    /\ sess[last.sid].mqttClient = last.pre.mqttClient
    /\ sess[last.sid].connected = last.pre.connected

\* C6: publish and disconnect on a session none of whose connects has succeeded
\* yet (also while one is in flight) fail with NotConnected, written to the
\* session's stream with the request's id, and touch no client.
C6_NotConnectedBeforeConnect ==
  (last.op \in {"publish", "disconnect"} /\ ~last.preEver) =>
    /\ last.resp = "error"
    /\ last.err = "NotConnected"
    /\ last.code = ServerError
    /\ last.respRid = last.rid
    /\ last.wrote = last.sid
    /\ last.sent = NoSend
    /\ last.ended = 0
    /\ \A op \in ops : op.rid # last.rid

\* C6's case: a publish was refused while the session's first connect was
\* still waiting for the broker.
C6_Witness ==
  /\ last.op = "publish"
  /\ ~last.preEver
  /\ last.err = "NotConnected"
  /\ \E c \in ClientsOf(last.sid) :
       PromisePending(clients[c]) /\ clients[c].state = "connecting"

\* C7: on a connected session, a publish whose command is not one of on, off,
\* toggle, status (or is missing) fails with UnsupportedCommand and hands
\* nothing to the client; whatever a publish hands to the client is the command
\* itself, on the session's configured topic.
C7_OnlyListedCommands ==
  (last.op = "publish" /\ HasConnection(last.pre)) =>
    /\ last.arg \notin CommandMapKeys =>
         last.err = "UnsupportedCommand" /\ last.sent = NoSend
    /\ last.sent # NoSend =>
         /\ last.sent.payload = last.arg
         /\ last.sent.topic = last.pre.config.topic

\* C8: when a connect attempt fails (and no other connection of the session is
\* live), the caller gets a ConnectionError response and the session is not
\* flagged connected, whatever it was before the call.
C8_FailedConnectDisconnects ==
  ( /\ last.op = "error"
    /\ last.prePending
    /\ \A c \in ClientsOf(last.sid) \ {last.client} : ~Live(c) ) =>
    /\ last.resp = "error"
    /\ last.err = "ConnectionError"
    /\ ~sess[last.sid].connected

\* C9: an 'error' or a dropped link on the connection the session holds, after
\* its connect succeeded, leaves the session not flagged connected, and writes
\* no response.
C9_AsyncErrorDisconnects ==
  ( /\ last.op \in {"error", "drop"}
    /\ ~last.prePending
    /\ last.preState = "connected"
    /\ last.pre.mqttClient = last.client ) =>
    /\ ~sess[last.sid].connected
    /\ last.resp = "none"

\* C10: every accepted request is answered on the session's stream. A request
\* that does not wait for the library is answered in the step that accepts it;
\* the connect call that made client c is answered when its promise settles,
\* and a publish or disconnect when its callback runs. The process dying of an
\* uncaught 'error' event, and the caller closing the stream before the answer,
\* are not counted against the claim here.
C10_EveryRequestAnswered ==
  /\ \A c \in 1..MaxClients :
       (c \in Cids /\ PromisePending(clients[c]))
         ~> \/ crashed
            \/ c \in Cids /\ ~sseOpen[clients[c].owner]
            \/ c \in Cids /\ ~PromisePending(clients[c])
  /\ \A op \in OpRecords :
       (op \in ops) ~> (crashed \/ ~sseOpen[op.sid] \/ op \notin ops)

\* The methods and tools a request names; a step with one of these names is
\* the step that accepts the request.
RequestOps ==
  {"initialize", "tools/list", "unknown-method", "unknown-tool", "configure",
   "getConfig", "connect", "publish", "disconnect"}

\* The requests that wait for the library: the connect calls whose promise is
\* pending, and the publish and end calls whose callback has not run.
Waiting ==
  {ConnectRid(c) : c \in {d \in Cids : PromisePending(clients[d])}}
    \cup {op.rid : op \in ops}

\* C11: every request with a known session id is acknowledged with {ack:true},
\* the same for every method and outcome, and the acknowledgement is sent
\* before the request's result or error event: a step that accepts a request
\* acknowledges it first and writes the event, if it writes one, after that;
\* an event written by a later step answers a request that was waiting, and a
\* request only comes to wait in a step that acknowledged it.
C11_AckBeforeResponse ==
  /\ [](last.op \in RequestOps =>
          /\ last.http = "ack"
          /\ last.order # <<>>
          /\ last.order[1] = "ack"
          /\ last.resp # "none" => last.order = <<"ack", "event">>)
  /\ [][ /\ (last'.resp # "none" /\ last'.op \notin RequestOps) =>
              last'.respRid \in Waiting
         /\ Waiting' \ Waiting # {} =>
              (last'.op \in RequestOps /\ last'.http = "ack") ]_vars

\* C11's case: a connect that was acknowledged when it was accepted has just
\* failed, and its error event is written.
C11_Witness ==
  /\ last.op = "error"
  /\ last.prePending
  /\ last.resp = "error"
  /\ last.http = "none"
  /\ last.respRid = ConnectRid(last.client)

\* The numbers of the messages forwarded to stream s, in the order written.
Forwarded(s) == [i \in 1..Len(notes[s]) |-> notes[s][i].n]

\* C12: every inbound message the broker link delivers to a connected client
\* of a session is forwarded to that session's stream, none is dropped, and
\* the stream holds them in the order of delivery, whatever requests and
\* responses come in between.
C12_MessagesForwardedInOrder ==
  /\ \A s \in Sids : \A i, j \in 1..Len(notes[s]) :
       i < j => notes[s][i].n < notes[s][j].n
  /\ \A n \in 1..delivered : \E s \in Sids : \E i \in 1..Len(notes[s]) :
       /\ notes[s][i].n = n
       /\ clients[notes[s][i].client].owner = s
  /\ last.op = "message" =>
       /\ last.wrote = last.sid
       /\ Len(notes[last.sid]) > 0
       /\ notes[last.sid][Len(notes[last.sid])] =
            [client |-> last.client, n |-> delivered]

\* C12's case: the stream holds three forwarded messages, and the response to
\* a publish has just been written to the same stream.
C12_Witness ==
  /\ last.op = "published"
  /\ last.resp # "none"
  /\ \E s \in Sids :
       /\ Forwarded(s) = <<1, 2, 3>>
       /\ last.wrote = s

\* C13: configure with clientId or topic missing or empty is answered with a
\* ValidationError, opens, ends and sends nothing, and leaves the session's
\* Configuration, connection handle and status flag as they were.
C13_ConfigureValidates ==
  ( /\ last.op = "configure"
    /\ (last.args.clientId = "" \/ last.args.topic = "") ) =>
    /\ last.resp = "error"
    /\ last.err = "ValidationError"
    /\ last.code = ServerError
    /\ last.respRid = last.rid
    /\ sess[last.sid] = last.pre
    /\ last.opened = 0
    /\ last.ended = 0
    /\ last.sent = NoSend

\* C13's case: a configure without topic was refused on a session that is
\* connected and holds a Configuration.
C13_Witness ==
  /\ last.op = "configure"
  /\ last.args.clientId # ""
  /\ last.args.topic = ""
  /\ last.err = "ValidationError"
  /\ HasConnection(last.pre)
  /\ Configured(last.pre)

\* C14: a configure that succeeds, in whatever state the session's connection
\* is, changes the session's Configuration and nothing else: handle and flag,
\* every client (its state, the endpoint and credentials it was opened with,
\* its subscription) and the calls in flight are as before.
C14_ConfigureChangesOnlyConfig ==
  [][ (last'.op = "configure" /\ last'.resp = "result") =>
        /\ sess'[last'.sid].mqttClient = sess[last'.sid].mqttClient
        /\ sess'[last'.sid].connected = sess[last'.sid].connected
        /\ sess'[last'.sid].config = StoredConfig(last'.args)
        /\ clients' = clients
        /\ ops' = ops
        /\ last'.opened = 0
        /\ last'.ended = 0 ]_vars

\* C14's case: a configure has succeeded on a connected session, and the
\* connection still is the one opened with the earlier Configuration.
C14_Witness ==
  /\ last.op = "configure"
  /\ last.resp = "result"
  /\ HasConnection(sess[last.sid])
  /\ clients[sess[last.sid].mqttClient].state = "connected"
  /\ clients[sess[last.sid].mqttClient].config # sess[last.sid].config
  /\ SubscribedTopic(clients[sess[last.sid].mqttClient]) # sess[last.sid].config.topic

\* A disconnect has just succeeded: its end callback ran, or the client had
\* ended already and called back at once.
DisconnectDone ==
  /\ last.resp = "result"
  /\ \/ last.op = "disconnect"
     \/ last.op = "ended"

\* C15: a disconnect that succeeds leaves the session's Configuration as it
\* was (and there is one); no step but a configure changes a Configuration;
\* and a connect on a session that holds a Configuration does not fail with
\* NotConfigured and opens its client with that Configuration.
C15_DisconnectKeepsConfig ==
  /\ [](DisconnectDone =>
          /\ sess[last.sid].config = last.pre.config
          /\ Configured(sess[last.sid])
          /\ ~sess[last.sid].connected
          /\ sess[last.sid].mqttClient = 0)
  /\ [](last.op = "connect" /\ Configured(last.pre) =>
          /\ last.err # "NotConfigured"
          /\ last.opened \in Cids
          /\ clients[last.opened].config = last.pre.config)
  /\ [][ last'.op # "configure" =>
           \A s \in Sids : sess'[s].config = sess[s].config ]_vars

\* C15's case: a session that was disconnected by a disconnect call connects
\* again, and the new client is opened with the Configuration of the ended one.
C15_Witness ==
  /\ last.op = "connect"
  /\ last.preEver
  /\ ~last.pre.connected
  /\ last.pre.mqttClient = 0
  /\ last.opened \in Cids
  /\ \E c \in ClientsOf(last.sid) :
       /\ clients[c].state = "ended"
       /\ clients[c].config = clients[last.opened].config

\* C16: a stream-open yields an id no earlier stream-open has yielded, and a
\* step on behalf of one session (a request with its id, or an event of a
\* client it opened) leaves every other session's Configuration, connection
\* handle and status flag as they were.
C16_SessionsAreSeparate ==
  [][ /\ last'.op = "open" =>
           /\ last'.sid \notin 1..(nextSid - 1)
           /\ last'.sid \notin sessions
           /\ sessions' = sessions \cup {last'.sid}
      /\ \A s \in Sids \ {last'.sid} : sess'[s] = sess[s] ]_vars

\* C16's case: a disconnect of one session has completed while another
\* session holds a Configuration and a connection.
C16_Witness ==
  /\ last.op = "ended"
  /\ last.resp = "result"
  /\ \E s \in sessions \ {last.sid} :
       /\ Configured(sess[s])
       /\ HasConnection(sess[s])
       /\ clients[sess[s].mqttClient].state = "connected"

\* C17: a connect opens its client with the host, port, client id and
\* credentials of the Configuration the session holds when connect is called,
\* and the client subscribes to that Configuration's topic; no client is ever
\* opened with a client id or a topic that is preset in the server.
C17_ConnectionUsesOwnConfig ==
  /\ (last.op = "connect" /\ last.opened # 0 /\ Configured(last.pre)) =>
       /\ clients[last.opened].config = last.pre.config
       /\ clients[last.opened].owner = last.sid
  /\ \A c \in Cids :
       /\ clients[c].config.clientId # DefaultClientId
       /\ clients[c].config.topic # DefaultTopic
       /\ SubscribedTopic(clients[c]) \in {"", clients[c].config.topic}

\* The text holds the characters w, one after the other.
Contains(text, w) ==
  /\ w # <<>>
  /\ \E i \in 1..(Len(text) - Len(w) + 1) : SubSeq(text, i, i + Len(w) - 1) = w

\* C18: the text getConfig returns for a stored Configuration holds neither
\* the whole client id nor the password.
C18_GetConfigMasks ==
  (last.op = "getConfig" /\ last.resp = "result" /\ Configured(last.pre)) =>
    /\ ~Contains(last.text, Chars(last.pre.config.clientId))
    /\ ~Contains(last.text, Chars(last.pre.config.password))

\* C19: a submission without session id, or with an id that was never handed
\* out or whose session has been removed, is answered 400 or 404 at once and
\* does nothing else: no event is written, no session, client or pending call
\* changes; and no request is dispatched for an id the table does not hold.
C19_RejectedSubmissions ==
  /\ [](last.op \in RequestOps => last.sid \in sessions)
  /\ [](last.op = "post" =>
          /\ last.http = (IF last.sid = 0 THEN "400" ELSE "404")
          /\ last.sid # 0 => last.sid \notin sessions
          /\ last.resp = "none"
          /\ last.wrote = 0
          /\ last.order = <<>>)
  /\ [][ last'.op = "post" =>
           UNCHANGED <<nextSid, sessions, sess, sseOpen, clients, ops,
                       delivered, notes, crashed>> ]_vars

\* C19's case: a submission names an id that was never handed out while
\* another session is connected, and is answered 404.
C19_Witness ==
  /\ last.op = "post"
  /\ last.http = "404"
  /\ last.sid >= nextSid
  /\ \E s \in sessions :
       HasConnection(sess[s]) /\ clients[sess[s].mqttClient].state = "connected"

\* C20: while a disconnect of the session is in flight (end was called, its
\* callback has not run), a publish of a listed command or another disconnect
\* fails with NotConnected and hands nothing to the client.
C20_ClosingRefusesRequests ==
  ( /\ last.op \in {"publish", "disconnect"}
    /\ last.op = "publish" => last.arg \in CommandMapKeys
    /\ \E op \in ops : op.kind = "end" /\ op.sid = last.sid /\ op.rid # last.rid ) =>
    /\ last.resp = "error"
    /\ last.err = "NotConnected"
    /\ last.sent = NoSend
    /\ last.ended = 0

\* Session s is Disconnected after a disconnect: one of its connects had
\* succeeded, a disconnect has since reset handle and flag, and no connect of
\* the session is waiting for the broker.
DisconnectedAgain(s) ==
  /\ EverConnected(s)
  /\ ~sess[s].connected
  /\ sess[s].mqttClient = 0
  /\ \A c \in ClientsOf(s) : ~PromisePending(clients[c])

\* C21: while a session is Disconnected after a disconnect, none of its
\* connections is live, and no inbound message is forwarded to its stream.
C21_QuietWhileDisconnected ==
  \A s \in Sids : DisconnectedAgain(s) =>
    /\ \A c \in ClientsOf(s) : ~Live(c)
    /\ ~(last.op = "message" /\ last.wrote = s)

\* C22: SessionManager.remove for an id that was removed before, or that was
\* never created, changes nothing: the table, every session object, every
\* client and every pending call are as before, and no end() is requested.
C22_RemoveIsIdempotent ==
  [][ last'.op = "remove" =>
        /\ sessions' = sessions
        /\ sess' = sess
        /\ sseOpen' = sseOpen
        /\ clients' = clients
        /\ ops' = ops
        /\ last'.ended = 0 ]_vars

\* C22's case: remove has been called again for a session that was removed
\* while it held a connection, while another session is in the table.
C22_Witness ==
  /\ last.op = "remove"
  /\ last.sid \in Sids
  /\ Removed(last.sid)
  /\ sess[last.sid].mqttClient # 0
  /\ sessions # {}

\* C23: in every state the connected flag of every session is set exactly
\* when its mqttClient handle is, and a session that has just been created
\* has the flag unset and no handle.
C23_FlagAgreesWithHandle ==
  /\ \A s \in Sids : sess[s].connected <=> sess[s].mqttClient # 0
  /\ last.op = "open" =>
       /\ ~sess[last.sid].connected
       /\ sess[last.sid].mqttClient = 0

\* C23's case: the end callback of a disconnect has just run on a session
\* that was connected, and both fields are reset.
C23_Witness ==
  /\ DisconnectDone
  /\ last.op = "ended"
  /\ last.pre.connected
  /\ last.pre.mqttClient # 0
  /\ ~sess[last.sid].connected
  /\ sess[last.sid].mqttClient = 0

\* C24: whenever controlLight hands a publish to the session's client, the
\* topic of the publish is the topic that client subscribed to when it
\* connected.
C24_PublishOnSubscribedTopic ==
  last.sent # NoSend =>
    last.sent.topic = SubscribedTopic(clients[last.sent.client])

\* The connect call that made client c has had no answer yet: neither of the
\* two once-listeners it registered has run.
Unanswered(cs, c) == cs[c].onConnect /\ cs[c].onError

\* C25: a step writes at most one response event, and every response event
\* answers one request that had no response yet, on the stream of the session
\* the request named, after which the request waits no longer. The step that
\* accepts a request answers that request only, leaving no client and no
\* library call behind to answer it again; a 'connect' or 'error' event
\* answers the connect call of its client only while neither listener has
\* run; a publish or end callback answers the call it belongs to and is gone.
C25_OneResponsePerRequest ==
  [][ last'.resp # "none" =>
        /\ last'.order \in {<<"ack", "event">>, <<"event">>}
        /\ IF last'.op \in RequestOps
           THEN /\ last'.respRid = last'.rid
                /\ last'.wrote = last'.sid
                /\ Len(clients') = Len(clients)
                /\ \A op \in ops' : op.rid = last'.rid => op \in ops
           ELSE IF last'.op \in {"connack", "error"}
           THEN /\ last'.respRid = ConnectRid(last'.client)
                /\ last'.wrote = clients[last'.client].owner
                /\ Unanswered(clients, last'.client)
                /\ ~Unanswered(clients', last'.client)
           ELSE \E op \in ops :
                  /\ op.rid = last'.respRid
                  /\ op.sid = last'.wrote
                  /\ op \notin ops' ]_vars

\* C25's case: both 'connect' and 'error' have fired for one connect attempt
\* (the result was written when 'connect' fired; the 'error' listener has just
\* run and wrote nothing), while a second session is in the table.
C25_Witness ==
  /\ last.op = "error"
  /\ ~last.prePending
  /\ last.resp = "none"
  /\ ~clients[last.client].onConnect
  /\ ~clients[last.client].onError
  /\ \E s \in sessions : s # last.sid

\* C26: no step writes to the stream of a session that has been removed:
\* no heartbeat, no notification of an inbound message, and no result or
\* error of a request.
C26_NothingWrittenAfterRemoval ==
  \A s \in Sids : Removed(s) => last.wrote # s

====
